---- MODULE Spec2Model ----
(***************************************************************************)
(* Robot-facing gateway of the cloud engine: the WebSocket protocol        *)
(* handler (WebSocketCloudEngineProtocol, ClientServer.py).                *)
(*                                                                         *)
(* Strings are byte sequences (Python 2 str): a key, a URI and a binary    *)
(* frame are sequences of byte values, so that k[-1], key[:-1], msg[:32]   *)
(* and msg[33:] are computed as the code computes them.                    *)
(***************************************************************************)
EXTENDS Integers, Sequences, FiniteSets, TLC

(***************************************************************************)
(* Bounds of the model.                                                    *)
(***************************************************************************)
\* frames received on the one WebSocket of a behaviour
MaxFrames == 3
\* last instant of the clock
MaxTime == 6
\* settings.MSG_QUQUE_TIMEOUT: configurable, the settings module sets it
MSG_QUEUE_TIMEOUT == 4

(***************************************************************************)
(* Program constants.                                                      *)
(***************************************************************************)
\* '*' : the last character of a placeholder key
STAR == 42
\* msg[:32]: the length of a URI
URI_LEN == 32
\* msg[33:]: where the handler starts reading the payload (0-based)
PAYLOAD_START == 33
\* LoopingCall(self._cleanUp).start(MSG_QUQUE_TIMEOUT/4)
SWEEP_DIVISOR == 4

None == "None"
NoError == "none"

(***************************************************************************)
(* JSON values.  Every value is a record of one shape: t is the kind, v    *)
(* the bytes of a string or of a binary buffer, d the mapping of an        *)
(* object (keys are byte sequences).                                       *)
(***************************************************************************)
EmptyDict == <<>>
Str(s) == [t |-> "str", v |-> s, d |-> EmptyDict]
Bin(b) == [t |-> "bin", v |-> b, d |-> EmptyDict]
Dict(m) == [t |-> "dict", v |-> <<>>, d |-> m]
NoneValue == [t |-> "none", v |-> <<>>, d |-> EmptyDict]

\* the order in which iteritems() yields the keys of a dict: fixed for a
\* given dict (its hash order)
RECURSIVE SetToSeq(_)
SetToSeq(S) ==
    IF S = {} THEN <<>>
    ELSE LET x == CHOOSE y \in S : TRUE
         IN <<x>> \o SetToSeq(S \ {x})

KeySeq(multidict) == SetToSeq(DOMAIN multidict)

\* k[-1] == '*'
EndsInStar(k) == k[Len(k)] = STAR

\* key[:-1]
StripLast(k) == SubSeq(k, 1, Len(k) - 1)

\* does any key of the tree, at any depth, end in '*'
RECURSIVE HasStarKey(_)
HasStarKey(multidict) ==
    \E k \in DOMAIN multidict :
        \/ Len(k) > 0 /\ EndsInStar(k)
        \/ multidict[k].t = "dict" /\ HasStarKey(multidict[k].d)

(***************************************************************************)
(* The objects of a parsed message.  json.loads builds one dict object per *)
(* JSON object; the handler keeps references to these objects in its       *)
(* missing list and mutates them in place.  An object is named by the path *)
(* at which it was parsed; objs maps each name to the dict's own keys (a   *)
(* dict-valued key holds a reference to the object one key deeper).        *)
(***************************************************************************)
RECURSIVE DictPaths(_)
DictPaths(multidict) ==
    {<<>>} \cup UNION { { <<k>> \o p : p \in DictPaths(multidict[k].d) } :
                        k \in { x \in DOMAIN multidict : multidict[x].t = "dict" } }

RECURSIVE GetAt(_, _)
GetAt(multidict, path) ==
    IF path = <<>> THEN multidict
    ELSE GetAt(multidict[Head(path)].d, Tail(path))

Shallow(multidict) ==
    [k \in DOMAIN multidict |->
        IF multidict[k].t = "dict" THEN Dict(EmptyDict) ELSE multidict[k]]

ToObjects(multidict) ==
    [p \in DictPaths(multidict) |-> Shallow(GetAt(multidict, p))]

\* the tree reachable from object p
RECURSIVE Materialize(_, _)
Materialize(objs, p) ==
    [k \in DOMAIN objs[p] |->
        IF objs[p][k].t = "dict" THEN Dict(Materialize(objs, Append(p, k)))
        ELSE objs[p][k]]

(***************************************************************************)
(* The session the handler talks to.  The handler imports its session      *)
(* class from a module that is not among the sources (`from Robot import   *)
(* Robot`): its constructor and the methods that rce/robot.py does not     *)
(* define are taken from the specification; the RPC methods are those of   *)
(* rce/robot.py, each one callRemote on the user ref.  The channel to the  *)
(* master is taken to be alive (callRemote does not raise).                *)
(***************************************************************************)
\* Robot(commManager, satelliteManager, self, msg['orig'])
NewRobot(orig) == orig

\* the positional parameters (besides self) each RPC method accepts
Signature ==
    [createContainer  |-> [min |-> 1, max |-> 1],
     destroyContainer |-> [min |-> 1, max |-> 1],
     addNode          |-> [min |-> 4, max |-> 7],
     removeNode       |-> [min |-> 2, max |-> 2],
     addInterface     |-> [min |-> 4, max |-> 5],
     removeInterface  |-> [min |-> 2, max |-> 2],
     addParameter     |-> [min |-> 3, max |-> 3],
     removeParameter  |-> [min |-> 2, max |-> 2],
     addConnection    |-> [min |-> 2, max |-> 2],
     removeConnection |-> [min |-> 2, max |-> 2]]

\* one downstream dispatch: the RPC name, its string arguments and, for a
\* data message, the message handed over
Call(name, args, data) == [name |-> name, args |-> args, data |-> data]

\* the omitted trailing parameters take their default ''
Padded(args, n) == [i \in 1..n |-> IF i <= Len(args) THEN args[i] ELSE ""]

\* Robot.createContainer .. Robot.removeConnection: a call with the wrong
\* number of arguments raises TypeError, any other issues one callRemote
UserRPC(name, args) ==
    IF Len(args) < Signature[name].min \/ Len(args) > Signature[name].max
    THEN [calls |-> <<>>, err |-> "TypeError"]
    ELSE [calls |-> <<Call(name, Padded(args, Signature[name].max), EmptyDict)>>,
          err |-> NoError]

\* activateInterface / deactivateInterface / sendROSMsgToContainer
SessionDispatch(name, args, data) ==
    [calls |-> <<Call(name, args, data)>>, err |-> NoError]

\* self._robot.<name>(<args>): the attribute is looked up on self._robot
\* first (None has no such attribute), then the arguments are evaluated
\* (a missing field raises KeyError), then the method runs
Invoke(robot, attempt) ==
    IF robot = None THEN [calls |-> <<>>, err |-> "AttributeError"]
    ELSE IF attempt.argErr # NoError THEN [calls |-> <<>>, err |-> attempt.argErr]
    ELSE IF attempt.name \in DOMAIN Signature THEN UserRPC(attempt.name, attempt.args)
    ELSE SessionDispatch(attempt.name, attempt.args, attempt.data)

\* the statements of one handler run in order; the first exception ends it
\* and the calls already made stay made
RECURSIVE InvokeAll(_, _)
InvokeAll(robot, attempts) ==
    IF attempts = <<>> THEN [calls |-> <<>>, err |-> NoError]
    ELSE LET first == Invoke(robot, Head(attempts))
         IN IF first.err # NoError THEN first
            ELSE LET rest == InvokeAll(robot, Tail(attempts))
                 IN [calls |-> first.calls \o rest.calls, err |-> rest.err]

Attempt(name, fieldsPresent, args, data) ==
    IF fieldsPresent
    THEN [name |-> name, argErr |-> NoError, args |-> args, data |-> data]
    ELSE [name |-> name, argErr |-> "KeyError", args |-> <<>>, data |-> EmptyDict]

Has(obj, f) == f \in DOMAIN obj

(***************************************************************************)
(* ClientMsgTypes: the module is not among the sources; the type tags are  *)
(* those of the specification's table.                                     *)
(***************************************************************************)
CREATE_CONTAINER == "CreateContainer"
DESTROY_CONTAINER == "DestroyContainer"
CHANGE_COMPONENT == "ConfigureComponent"
INTERFACE_STATE == "ConfigureInterfaceState"
MESSAGE == "DataMessage"

(***************************************************************************)
(* _recursiveURISearch: the (value, dict object, key) triples of the keys  *)
(* ending in '*', in iteration order.  A dict value is searched and its    *)
(* own key is not looked at; k[-1] of an empty key raises IndexError.      *)
(***************************************************************************)
RECURSIVE URISearchKeys(_, _, _)
URISearchKeys(multidict, path, keys) ==
    IF keys = <<>> THEN [list |-> <<>>, err |-> NoError]
    ELSE LET k == Head(keys)
             v == multidict[k]
             first ==
                 IF v.t = "dict"
                 THEN URISearchKeys(v.d, Append(path, k), KeySeq(v.d))
                 ELSE IF Len(k) = 0 THEN [list |-> <<>>, err |-> "IndexError"]
                 ELSE IF EndsInStar(k)
                 THEN [list |-> <<[uri |-> v, obj |-> path, key |-> k]>>,
                       err |-> NoError]
                 ELSE [list |-> <<>>, err |-> NoError]
         IN IF first.err # NoError THEN first
            ELSE LET rest == URISearchKeys(multidict, path, Tail(keys))
                 IN [list |-> first.list \o rest.list, err |-> rest.err]

RecursiveURISearch(multidict) == URISearchKeys(multidict, <<>>, KeySeq(multidict))

(***************************************************************************)
(* _strMsgHandle.  A result holds the session reference and the            *)
(* reassembly buffer the handler leaves behind, the downstream calls it    *)
(* made and the exception that ended it.  A parked entry is the tuple      *)
(* (msg, uriList, time); objs are the dict objects of msg's tree, and      *)
(* frame (history) is the arrival number of the text frame.                *)
(***************************************************************************)
Result(robot, incompleteMsgs, calls, err) ==
    [robot |-> robot, incompleteMsgs |-> incompleteMsgs, calls |-> calls, err |-> err]

\* if '<field>' in data: for x in data['<field>']: ...
ListAttempts(data, field, AttemptOf(_)) ==
    IF Has(data, field)
    THEN [i \in 1..Len(data[field]) |-> AttemptOf(data[field][i])]
    ELSE <<>>

ChangeComponentAttempts(msg, data) ==
    ListAttempts(data, "addNodes", LAMBDA node :
        Attempt("addNode",
                Has(msg, "dest") /\ {"nodeTag", "pkg", "exe", "namespace"} \subseteq DOMAIN node,
                <<msg.dest, node.nodeTag, node.pkg, node.exe, node.namespace>>, EmptyDict))
    \o ListAttempts(data, "removeNodes", LAMBDA nodeTag :
        Attempt("removeNode", Has(msg, "dest"), <<msg.dest, nodeTag>>, EmptyDict))
    \o ListAttempts(data, "addInterfaces", LAMBDA interfaceConfig :
        Attempt("addInterface",
                Has(msg, "dest") /\ {"name", "interfaceType", "className"} \subseteq DOMAIN interfaceConfig,
                <<msg.dest, interfaceConfig.name, interfaceConfig.name,
                  interfaceConfig.interfaceType, interfaceConfig.className>>, EmptyDict))
    \o ListAttempts(data, "removeInterfaces", LAMBDA interfaceTag :
        Attempt("removeInterface", Has(msg, "dest"), <<msg.dest, interfaceTag>>, EmptyDict))
    \o ListAttempts(data, "setParam", LAMBDA param :
        Attempt("addParameter",
                Has(msg, "dest") /\ {"paramName", "paramValue", "paramType"} \subseteq DOMAIN param,
                <<msg.dest, param.paramName, param.paramValue, param.paramType>>, EmptyDict))
    \o ListAttempts(data, "deleteParam", LAMBDA paramName :
        Attempt("removeParameter", Has(msg, "dest"), <<msg.dest, paramName>>, EmptyDict))

InterfaceStateAttempts(msg, data) ==
    LET tags == SetToSeq(DOMAIN data)
    IN [i \in 1..Len(tags) |->
           Attempt(IF data[tags[i]] THEN "activateInterface" ELSE "deactivateInterface",
                   Has(msg, "dest"), <<msg.dest, tags[i]>>, EmptyDict)]

\* self._robot.sendROSMsgToContainer(msg['dest'], data): data is the object
\* {"msg": tree}, whose only other content is its key "msg"; the call is
\* recorded with the tree
SendROSMsgAttempt(msg, tree) ==
    Attempt("sendROSMsgToContainer", Has(msg, "dest"), <<msg.dest>>, tree)

\* self._robot.createContainer(data['containerTag'])
CreateContainerAttempt(data) ==
    Attempt("createContainer", Has(data, "containerTag"), <<data.containerTag>>, EmptyDict)

DestroyContainerAsCreate(data) ==
    Attempt("createContainer", Has(data, "containerTag"), <<data.containerTag>>, EmptyDict)

\* self._robot.destroyContainer(data['containerTag'])
DestroyContainerAttempt(data) ==
    Attempt("destroyContainer", Has(data, "containerTag"), <<data.containerTag>>, EmptyDict)

StrMsgHandle(value, robot, incompleteMsgs, clock, frameNo) ==
    IF value.top # "object"
    THEN Result(robot, incompleteMsgs, <<>>, "TypeError")
    ELSE LET msg == value.obj IN
    IF ~Has(msg, "data") \/ ~Has(msg, "type")
    THEN Result(robot, incompleteMsgs, <<>>, "KeyError")
    ELSE LET data == msg.data IN
    IF msg.type = CREATE_CONTAINER THEN
        IF robot = None /\ ~Has(msg, "orig")
        THEN Result(robot, incompleteMsgs, <<>>, "KeyError")
        ELSE LET bound == IF robot = None THEN NewRobot(msg.orig) ELSE robot
                 done == InvokeAll(bound, <<CreateContainerAttempt(data)>>)
             IN Result(bound, incompleteMsgs, done.calls, done.err)
    ELSE IF msg.type = DESTROY_CONTAINER THEN
        LET done == InvokeAll(robot, <<DestroyContainerAttempt(data)>>)
        IN Result(robot, incompleteMsgs, done.calls, done.err)
    ELSE IF msg.type = CHANGE_COMPONENT THEN
        LET done == InvokeAll(robot, ChangeComponentAttempts(msg, data))
        IN Result(robot, incompleteMsgs, done.calls, done.err)
    ELSE IF msg.type = INTERFACE_STATE THEN
        LET done == InvokeAll(robot, InterfaceStateAttempts(msg, data))
        IN Result(robot, incompleteMsgs, done.calls, done.err)
    ELSE IF msg.type = MESSAGE THEN
        IF ~Has(data, "msg")
        THEN Result(robot, incompleteMsgs, <<>>, "KeyError")
        ELSE LET found == RecursiveURISearch(data.msg) IN
             IF found.err # NoError
             THEN Result(robot, incompleteMsgs, <<>>, found.err)
             ELSE IF found.list # <<>>
             THEN Result(robot,
                         Append(incompleteMsgs,
                                [msg |-> msg, objs |-> ToObjects(data.msg),
                                 uriList |-> found.list, time |-> clock,
                                 frame |-> frameNo]),
                         <<>>, NoError)
             ELSE LET done == InvokeAll(robot, <<SendROSMsgAttempt(msg, data.msg)>>)
                  IN Result(robot, incompleteMsgs, done.calls, done.err)
    ELSE Result(robot, incompleteMsgs, <<>>, "InvalidRequest")

(***************************************************************************)
(* _binaryMsgHandle.                                                       *)
(***************************************************************************)
Min(S) == CHOOSE x \in S : \A y \in S : x <= y

\* msg[:32]
UriOf(frame) == SubSeq(frame, 1, IF Len(frame) < URI_LEN THEN Len(frame) ELSE URI_LEN)

\* msg[33:]
PayloadRead(frame) == SubSeq(frame, PAYLOAD_START + 1, Len(frame))

\* StringIO().write(s): write returns None; the buffer written to is dropped
StringIOWrite(s) == NoneValue

\* del msgDict[key]; msgDict[key[:-1]] = binaryData
Fill(msgDict, key, binaryData) ==
    [k \in (DOMAIN msgDict \ {key}) \cup {StripLast(key)} |->
        IF k = StripLast(key) THEN binaryData ELSE msgDict[k]]

\* list.remove(x): the first element equal to x goes
ListRemove(list, x) ==
    LET i == Min({j \in 1..Len(list) : list[j] = x})
    IN SubSeq(list, 1, i - 1) \o SubSeq(list, i + 1, Len(list))

\* the tuples of the buffer are compared by value: msg, uriList, time
SameEntry(a, b) == a.msg = b.msg /\ a.uriList = b.uriList /\ a.time = b.time

RemoveEntry(list, x) ==
    LET i == Min({j \in 1..Len(list) : SameEntry(list[j], x)})
    IN SubSeq(list, 1, i - 1) \o SubSeq(list, i + 1, Len(list))

MaxSlots(incompleteMsgs) ==
    IF incompleteMsgs = <<>> THEN 0
    ELSE CHOOSE n \in {Len(incompleteMsgs[i].uriList) : i \in 1..Len(incompleteMsgs)} :
            \A i \in 1..Len(incompleteMsgs) : Len(incompleteMsgs[i].uriList) <= n

\* uri == missingUri
UriMatches(uri, missingUri) == missingUri.t = "str" /\ missingUri.v = uri

\* the first (entry, triple), in the order of the two loops, whose URI is
\* that of the frame
Matches(uri, incompleteMsgs) ==
    {ij \in (1..Len(incompleteMsgs)) \X (1..MaxSlots(incompleteMsgs)) :
        /\ ij[2] <= Len(incompleteMsgs[ij[1]].uriList)
        /\ UriMatches(uri, incompleteMsgs[ij[1]].uriList[ij[2]].uri)}

FirstMatch(uri, incompleteMsgs) ==
    LET all == Matches(uri, incompleteMsgs)
        i == Min({ij[1] : ij \in all})
    IN <<i, Min({ij[2] : ij \in {m \in all : m[1] = i}})>>

NoFill == [hit |-> FALSE, key |-> <<>>, parent |-> EmptyDict, frame |-> <<>>]

\* a result as of _strMsgHandle, with fill (history): the key, the parent
\* object after the assignment and the frame of the slot that was filled,
\* and from (history): the arrival number of the message dispatched
BinaryMsgHandle(frame, robot, incompleteMsgs) ==
    LET uri == UriOf(frame)
        binaryData == StringIOWrite(PayloadRead(frame))
    IN IF Matches(uri, incompleteMsgs) = {}
       THEN [robot |-> robot, incompleteMsgs |-> incompleteMsgs, calls |-> <<>>,
             err |-> NoError, fill |-> NoFill, from |-> 0]
       ELSE LET at == FirstMatch(uri, incompleteMsgs)
                incompleteMsg == incompleteMsgs[at[1]]
                incompleteUri == incompleteMsg.uriList[at[2]]
                objs == [incompleteMsg.objs EXCEPT ![incompleteUri.obj] =
                            Fill(@, incompleteUri.key, binaryData)]
                filled == [incompleteMsg EXCEPT
                              !.objs = objs,
                              !.msg.data.msg = Materialize(objs, <<>>),
                              !.uriList = ListRemove(@, incompleteUri)]
                kept == [incompleteMsgs EXCEPT ![at[1]] = filled]
                fill == [hit |-> TRUE, key |-> incompleteUri.key,
                         parent |-> objs[incompleteUri.obj], frame |-> frame]
            IN IF filled.uriList # <<>>
               THEN [robot |-> robot, incompleteMsgs |-> kept, calls |-> <<>>,
                     err |-> NoError, fill |-> fill, from |-> 0]
               ELSE LET done == InvokeAll(robot,
                                   <<SendROSMsgAttempt(filled.msg, filled.msg.data.msg)>>)
                    IN IF done.err # NoError
                       THEN [robot |-> robot, incompleteMsgs |-> kept, calls |-> <<>>,
                             err |-> done.err, fill |-> fill, from |-> 0]
                       ELSE [robot |-> robot, incompleteMsgs |-> RemoveEntry(kept, filled),
                             calls |-> done.calls, err |-> NoError, fill |-> fill,
                             from |-> filled.frame]

(***************************************************************************)
(* _cleanUp: the loop stops at the first entry that arrived after the      *)
(* limit and, unless it is the first of the list, cuts the list there.     *)
(***************************************************************************)
CleanUpList(incompleteMsgs, clock) ==
    LET limit == clock - MSG_QUEUE_TIMEOUT
        young == {i \in 1..Len(incompleteMsgs) : incompleteMsgs[i].time > limit}
    IN IF young = {} THEN incompleteMsgs
       ELSE IF Min(young) = 1 THEN incompleteMsgs
       ELSE SubSeq(incompleteMsgs, Min(young), Len(incompleteMsgs))

\* LoopingCall(self._cleanUp).start(settings.MSG_QUQUE_TIMEOUT/4)
SweepPeriod == MSG_QUEUE_TIMEOUT \div SWEEP_DIVISOR

(***************************************************************************)
(* The frames a robot sends.  A text frame is what json.loads makes of it: *)
(* malformed text (json.loads raises ValueError), or a JSON value whose    *)
(* top level is an array or an object.  A binary frame is its bytes.       *)
(***************************************************************************)
KImg == <<105, 109, 103>>
KImgStar == <<105, 109, 103, STAR>>
KImgStarStar == <<105, 109, 103, STAR, STAR>>
KSub == <<115, 117, 98>>
KSubStar == <<115, 117, 98, STAR>>
KEmpty == <<>>
Plain == Str(<<120>>)

UriA == [i \in 1..URI_LEN |-> 97]
UriB == [i \in 1..URI_LEN |-> 98]
DeadBeef == <<222, 173, 190, 239>>

TPlain == KImg :> Plain
TOne == KImgStar :> Str(UriA)
TTwo == (KImgStar :> Str(UriA)) @@ (KSub :> Dict(KImgStar :> Str(UriB)))
TSame == (KImgStar :> Str(UriA)) @@ (KSub :> Dict(KImgStar :> Str(UriA)))
TObjectKey == KSubStar :> Dict(KImg :> Plain)
TTwoStars == KImgStarStar :> Str(UriA)
TShadow == (KSubStar :> Str(UriA)) @@ (KSub :> Dict(KImgStar :> Str(UriB)))
TEmptyKey == KEmpty :> Plain

MsgTrees == {TPlain, TOne, TTwo, TSame, TObjectKey, TTwoStars, TShadow, TEmptyKey}

Object(type, dest, data) ==
    [top |-> "object", obj |-> [type |-> type, orig |-> "r1", dest |-> dest, data |-> data]]
Text(value) == [binary |-> FALSE, wellFormed |-> TRUE, value |-> value]
Binary(bytes) == [binary |-> TRUE, bytes |-> bytes]

Malformed == [binary |-> FALSE, wellFormed |-> FALSE, value |-> [top |-> "none"]]
TopLevelArray == Text([top |-> "array"])
NoLists == [comment |-> "x"]

CreateContainer(tag) == Text(Object(CREATE_CONTAINER, "", [containerTag |-> tag]))
DestroyContainer(tag) == Text(Object(DESTROY_CONTAINER, "", [containerTag |-> tag]))
DataMessage(dest, tree) == Text(Object(MESSAGE, dest, [msg |-> tree]))
ConfigureComponent(dest, data) == Text(Object(CHANGE_COMPONENT, dest, data))
ConnectInterfaces ==
    Text(Object("ConnectInterfaces", "",
                [connect |-> <<<<"r1/a", "c1/b">>>>, disconnect |-> <<<<"r1/c", "c1/d">>>>]))
Nonsense == Text(Object("Nonsense", "", NoLists))
InterfaceState == Text(Object(INTERFACE_STATE, "c1", [i1 |-> TRUE, i2 |-> FALSE]))
MissingContainerTag == Text(Object(CREATE_CONTAINER, "", NoLists))
MissingData == Text([top |-> "object", obj |-> [type |-> CREATE_CONTAINER, orig |-> "r1", dest |-> ""]])
MissingType == Text([top |-> "object", obj |-> [orig |-> "r1", dest |-> "", data |-> NoLists]])

Node(n) == [nodeTag |-> n, pkg |-> "pkg", exe |-> "exe", namespace |-> "ns"]
Interface(n) == [name |-> n, interfaceType |-> "PublisherConverter", className |-> "std_msgs/Int32"]
Param(n) == [paramName |-> n, paramValue |-> "1", paramType |-> "int"]

ListNames == {"addNodes", "removeNodes", "addInterfaces", "removeInterfaces", "setParam", "deleteParam"}

Elements(field, names) ==
    [i \in 1..Len(names) |->
        CASE field = "addNodes" -> Node(names[i])
          [] field = "addInterfaces" -> Interface(names[i])
          [] field = "setParam" -> Param(names[i])
          [] OTHER -> names[i]]

\* one list of two elements, every list with one element, no list at all,
\* every list but setParam, and a list whose second element lacks a field
ConfigDatas ==
    { [f \in {one} |-> Elements(f, <<"x1", "x2">>)] : one \in ListNames }
    \cup { [f \in ListNames |-> Elements(f, <<"x1">>)],
           [f \in ListNames \ {"setParam"} |-> Elements(f, <<"x1">>)],
           NoLists,
           [addNodes |-> <<Node("x1"), [nodeTag |-> "x2"]>>] }

BinaryFrames == {Binary(UriA \o DeadBeef), Binary(UriB \o DeadBeef), Binary(<<97>>)}

TextFrames ==
    {Malformed, TopLevelArray, MissingData, MissingType, MissingContainerTag,
     Nonsense, ConnectInterfaces, InterfaceState,
     CreateContainer("c1"), DestroyContainer("c1")}
    \cup {ConfigureComponent("c1", data) : data \in ConfigDatas}
    \cup {DataMessage("i1", tree) : tree \in MsgTrees}

Frames == TextFrames \cup BinaryFrames

\* the frames of the reassembly scenarios
ReassemblyFrames ==
    {CreateContainer("c1"), DataMessage("i1", TOne), DataMessage("i1", TTwo),
     Binary(UriA \o DeadBeef), Binary(UriB \o DeadBeef)}

(***************************************************************************)
(* The outbound path: _recursiveBinarySearch and sendMessage.  A blob      *)
(* (StringIO) is a Bin value.                                              *)
(***************************************************************************)
MaxSends == 2

\* uuid.uuid4().hex: 32 characters, the n-th one drawn for a message
Uuid4Hex(n) == [i \in 1..URI_LEN |-> 96 + n]

\* _checkIsStringIO(v)
CheckIsStringIO(v) == v.t = "bin"

\* '{0}*'.format(k)
StarKey(k) == Append(k, STAR)

\* the first loop of _recursiveBinarySearch over the items from ks on:
\* nested objects are searched and put back, the keys of blobs collected
RECURSIVE BinarySearchItems(_, _, _, _, _)
RECURSIVE BinarySearchKeys(_, _)
BinarySearchItems(multidict, ks, uriBinary, keys, drawn) ==
    IF ks = <<>>
    THEN [multidict |-> multidict, uriBinary |-> uriBinary, keys |-> keys, drawn |-> drawn]
    ELSE LET k == Head(ks)
             v == multidict[k]
         IN IF v.t = "dict"
            THEN LET ownKs == SetToSeq(DOMAIN v.d)
                     inner == BinarySearchItems(v.d, ownKs, <<>>, <<>>, drawn)
                     part == BinarySearchKeys(inner, ownKs)
                 IN BinarySearchItems([multidict EXCEPT ![k] = Dict(part.multidict)],
                                      Tail(ks), uriBinary \o part.uriBinary, keys,
                                      part.drawn)
            ELSE BinarySearchItems(multidict, Tail(ks), uriBinary,
                                   IF CheckIsStringIO(v) THEN Append(keys, k) ELSE keys,
                                   drawn)

\* the second loop: every collected key gets a URI and is replaced by its
\* starred key; the blob recorded with the URI is v, the value the first
\* loop visited last
BinarySearchKeys(found, items) ==
    IF found.keys = <<>>
    THEN [multidict |-> found.multidict, uriBinary |-> found.uriBinary,
          drawn |-> found.drawn]
    ELSE LET k == Head(found.keys)
             tmpURI == Uuid4Hex(found.drawn + 1)
             v == found.multidict[items[Len(items)]]
             rest == [x \in DOMAIN found.multidict \ {k} |-> found.multidict[x]]
         IN BinarySearchKeys(
                [multidict |-> (StarKey(k) :> Str(tmpURI)) @@ rest,
                 uriBinary |-> Append(found.uriBinary, <<tmpURI, v>>),
                 keys |-> Tail(found.keys),
                 drawn |-> found.drawn + 1],
                items)

\* _recursiveBinarySearch(multidict)
RecursiveBinarySearch(multidict) ==
    BinarySearchKeys(BinarySearchItems(multidict, KeySeq(multidict), <<>>, <<>>, 0),
                     KeySeq(multidict))

\* the loop of sendMessage over URIBinary: binData[0] + binData[1].getvalue()
\* sent as a binary frame; a value that is no StringIO has no getvalue
RECURSIVE SendBinaries(_, _)
SendBinaries(uriBinary, frames) ==
    IF uriBinary = <<>> THEN [frames |-> frames, err |-> NoError]
    ELSE LET binData == Head(uriBinary) IN
         IF ~CheckIsStringIO(binData[2])
         THEN [frames |-> frames, err |-> "AttributeError"]
         ELSE SendBinaries(Tail(uriBinary),
                           Append(frames, [binary |-> TRUE,
                                           bytes |-> binData[1] \o binData[2].v]))

\* json.dumps(msgURI) of the message around the tree, sent as a text frame
JsonDumps(dest, tree) ==
    [binary |-> FALSE, wellFormed |-> TRUE,
     value |-> [top |-> "object",
                obj |-> [type |-> MESSAGE, orig |-> "r1", dest |-> dest,
                         data |-> [msg |-> tree]]]]

\* sendMessage(msg), msg a DataMessage whose blobs are in data['msg']: the
\* objects around it hold no blob, so the search leaves them as they are
SendMessageFrames(dest, tree) ==
    LET found == RecursiveBinarySearch(tree)
        sent == SendBinaries(found.uriBinary, <<JsonDumps(dest, found.multidict)>>)
    IN [sent |-> TRUE, dest |-> dest, tree |-> tree, frames |-> sent.frames,
        err |-> sent.err,
        uris |-> [i \in 1..Len(found.uriBinary) |-> found.uriBinary[i][1]]]

\* messages handed to sendMessage
Blob1 == Bin(DeadBeef)
Blob2 == Bin(<<202, 254>>)

OutTrees ==
    {KImg :> Plain,
     KImg :> Blob1,
     (KImg :> Blob1) @@ (KSub :> Blob2),
     (KImg :> Blob1) @@ (KSub :> Plain),
     (KImg :> Plain) @@ (KSub :> Blob1),
     (KImg :> Blob1) @@ (KSub :> Dict(KImg :> Blob2)),
     (KImg :> Plain) @@ (KSub :> Dict(KImg :> Blob1)),
     KSub :> Dict((KImg :> Blob1) @@ (KSub :> Blob2))}

NothingSent ==
    [sent |-> FALSE, dest |-> "", tree |-> EmptyDict, frames |-> <<>>, err |-> NoError,
     uris |-> <<>>]

(***************************************************************************)
(* The gateway, rce/robot.py: RobotClient and its Robot sessions.  A       *)
(* gateway state g holds robots, pendingRobots, deathCandidates, the       *)
(* DelayedCalls made so far (timers) and the Robot objects made so far     *)
(* (sessions); a session is named by its number.  An operation gives the   *)
(* state it leaves and the exception it raises.                            *)
(***************************************************************************)
MaxSessions == 2

MaxLogins == 2

RECONNECT_TIMEOUT == 10

UserIDs == {"u1"}
RobotIDs == {"r1", "r2"}
Uids == UserIDs \X RobotIDs
Keys == {"k1", "k2"}
Tags == {"i1", "i2"}

\* no avatar ID, no Robot
NoUid == <<>>
NoRobot == 0

Ok(g) == [g |-> g, err |-> NoError]
Raise(g, err) == [g |-> g, err |-> err]

\* the statements after one that raised are not run
Then(res, Op(_)) == IF res.err # NoError THEN res ELSE Op(res.g)

\* dict.pop(key) / del dict[key]
Without(dict, key) == [x \in DOMAIN dict \ {key} |-> dict[x]]

\* self._reactor.callLater(self.RECONNECT_TIMEOUT, self._killRobot, robot)
\* and self._deathCandidates[robot] = deathCall
CallLater(g, robot) ==
    [g EXCEPT
        !.timers = Append(@, [robot |-> robot, delay |-> RECONNECT_TIMEOUT,
                              status |-> "armed"]),
        !.deathCandidates = (robot :> (Len(g.timers) + 1)) @@ @]

\* self._deathCandidates.pop(robot) and deathCall.cancel()
PopAndCancel(g, robot) ==
    [g EXCEPT !.timers[g.deathCandidates[robot]].status = "cancelled",
              !.deathCandidates = Without(@, robot)]

RegisterRobotNoTimer(g, robot) ==
    IF robot \in g.robots \/ robot \in DOMAIN g.deathCandidates
    THEN Raise(g, "AssertionError")
    ELSE Ok([g EXCEPT !.robots = @ \cup {robot}])

\* RobotClient.registerRobot(robot)
RegisterRobot(g, robot) ==
    IF robot \in g.robots \/ robot \in DOMAIN g.deathCandidates
    THEN Raise(g, "AssertionError")
    ELSE Ok(CallLater([g EXCEPT !.robots = @ \cup {robot}], robot))

UnregisterRobotKeepsTimer(g, robot) ==
    IF robot \notin g.robots
    THEN Raise(g, "AssertionError")
    ELSE Ok([g EXCEPT !.robots = @ \ {robot}])

\* RobotClient.unregisterRobot(robot)
UnregisterRobot(g, robot) ==
    IF robot \notin g.robots
    THEN Raise(g, "AssertionError")
    ELSE LET removed == [g EXCEPT !.robots = @ \ {robot}]
         IN IF robot \in DOMAIN g.deathCandidates
            THEN Ok(PopAndCancel(removed, robot))
            ELSE Ok(removed)

\* RobotClient.connectionLost(robot)
RobotClientConnectionLost(g, robot) ==
    IF robot \in DOMAIN g.deathCandidates
    THEN Raise(g, "AssertionError")
    ELSE Ok(CallLater(g, robot))

ConnectionEstablishedKeepsTimer(g, robot) ==
    IF robot \notin DOMAIN g.deathCandidates
    THEN Raise(g, "AssertionError")
    ELSE Ok(g)

\* RobotClient.connectionEstablished(robot)
ConnectionEstablished(g, robot) ==
    IF robot \notin DOMAIN g.deathCandidates
    THEN Raise(g, "AssertionError")
    ELSE Ok(PopAndCancel(g, robot))

\* Robot.__init__(client, user)
RobotInit(g, user) ==
    LET robot == Len(g.sessions) + 1
        made == RegisterRobot(g, robot)
    IN [made EXCEPT
           !.g.sessions = Append(@, [user |-> user, connection |-> None,
                                     interfaces |-> {}, destroyed |-> FALSE])]

\* Robot.registerConnectionToRobot(connection)
RegisterConnectionToRobot(g, robot, connection) ==
    ConnectionEstablished([g EXCEPT !.sessions[robot].connection = connection], robot)

\* Robot.unregisterConnectionToRobot()
UnregisterConnectionToRobot(g, robot) ==
    RobotClientConnectionLost([g EXCEPT !.sessions[robot].connection = None], robot)

\* self._connection.dropConnection(): the protocol closes the WebSocket and
\* with it takes the connection off the session
DropConnection(g, robot) == UnregisterConnectionToRobot(g, robot)

\* interface.remote_destroy() for every interface of the session: each
\* takes itself off the table through unregisterInterface
DestroyInterfaces(g, robot) == Ok([g EXCEPT !.sessions[robot].interfaces = {}])

\* the two assertions of remote_destroy
DestroyAsserts(g, robot) ==
    IF g.sessions[robot].interfaces # {} \/ g.sessions[robot].connection # None
    THEN Raise(g, "AssertionError")
    ELSE Ok(g)

\* Robot.remote_destroy()
RemoteDestroy(g, robot) ==
    LET dropped == IF g.sessions[robot].connection # None
                   THEN DropConnection(g, robot)
                   ELSE Ok(g)
        emptied == Then(dropped, LAMBDA h : DestroyInterfaces(h, robot))
        checked == Then(emptied, LAMBDA h : DestroyAsserts(h, robot))
        gone == Then(checked, LAMBDA h : UnregisterRobot(h, robot))
    IN Then(gone, LAMBDA h : Ok([h EXCEPT !.sessions[robot].destroyed = TRUE]))

KillRobotOnlyForgets(g, robot) ==
    IF robot \notin DOMAIN g.deathCandidates
    THEN Raise(g, "AssertionError")
    ELSE Ok([g EXCEPT !.deathCandidates = Without(@, robot)])

\* RobotClient._killRobot(robot), the call of a timer that fires
KillRobot(g, robot) ==
    IF robot \notin DOMAIN g.deathCandidates
    THEN Raise(g, "AssertionError")
    ELSE RemoteDestroy([g EXCEPT !.deathCandidates = Without(@, robot)], robot)

\* RobotClient.remote_createNamespace(user, userID, robotID, key)
RemoteCreateNamespace(g, user, uid, key) ==
    IF uid \in DOMAIN g.pendingRobots
    THEN Raise(g, "InternalError")
    ELSE LET made == RobotInit(g, user)
         IN Then(made, LAMBDA h :
                Ok([h EXCEPT !.pendingRobots =
                       (uid :> [key |-> key, robot |-> Len(h.sessions)]) @@ @]))

\* credentials.checkKey(key)
CheckKey(supplied, key) == supplied = key

PasswordMatchAlways(matched, avatarId) == [avatarId |-> avatarId, err |-> NoError]

\* RobotClient._passwordMatch(matched, avatarId)
PasswordMatch(matched, avatarId) ==
    IF matched THEN [avatarId |-> avatarId, err |-> NoError]
    ELSE [avatarId |-> NoUid, err |-> "UnauthorizedLogin"]

\* RobotClient.requestAvatarId(credentials)
RequestAvatarId(g, avatarId, supplied) ==
    IF avatarId \in DOMAIN g.pendingRobots
    THEN PasswordMatch(CheckKey(supplied, g.pendingRobots[avatarId].key), avatarId)
    ELSE [avatarId |-> NoUid, err |-> "UnauthorizedLogin"]

RequestAvatarKeepsEntry(g, avatarId) ==
    IF avatarId \notin DOMAIN g.pendingRobots
    THEN [g |-> g, err |-> "InternalError", robot |-> NoRobot]
    ELSE [g |-> g, err |-> NoError, robot |-> g.pendingRobots[avatarId].robot]

\* RobotClient.requestAvatar(avatarId, mind, IRobot)
RequestAvatar(g, avatarId) ==
    IF avatarId \notin DOMAIN g.pendingRobots
    THEN [g |-> g, err |-> "InternalError", robot |-> NoRobot]
    ELSE [g |-> [g EXCEPT !.pendingRobots = Without(@, avatarId)], err |-> NoError,
          robot |-> g.pendingRobots[avatarId].robot]

\* the loop of terminate over self._robots.copy()
RECURSIVE DestroyAll(_, _)
DestroyAll(res, todo) ==
    IF todo = <<>> \/ res.err # NoError THEN res
    ELSE DestroyAll(RemoteDestroy(res.g, Head(todo)), Tail(todo))

TerminateKeepsPending(g) ==
    LET destroyed == DestroyAll(Ok(g), SetToSeq(g.robots))
    IN Then(destroyed, LAMBDA h :
           IF h.robots # {} \/ DOMAIN h.deathCandidates # {}
           THEN Raise(h, "AssertionError")
           ELSE Ok(h))

\* RobotClient.terminate()
Terminate(g) ==
    LET emptied == [g EXCEPT !.pendingRobots = <<>>]
        destroyed == DestroyAll(Ok(emptied), SetToSeq(g.robots))
    IN Then(destroyed, LAMBDA h :
           IF h.robots # {} \/ DOMAIN h.deathCandidates # {}
           THEN Raise(h, "AssertionError")
           ELSE Ok(h))

\* Robot.registerInterface(interface), called as the interface is made
RegisterInterface(g, robot, tag) ==
    IF tag \in g.sessions[robot].interfaces
    THEN Raise(g, "AssertionError")
    ELSE Ok([g EXCEPT !.sessions[robot].interfaces = @ \cup {tag}])

\* Robot.receivedFromClient(iTag, clsName, msgID, msg): the interface whose
\* receive is called
ReceivedFromClient(g, robot, iTag) ==
    IF iTag \notin g.sessions[robot].interfaces
    THEN [to |-> "", err |-> "KeyError"]
    ELSE [to |-> iTag, err |-> NoError]

\* Robot.createContainer(tag) and the other calls on the user reference:
\* callRemote raises when the channel of the reference is gone, and gives a
\* Deferred with _reportError as its errback when it is not
RobotCallRemote(dead, pending, robot) ==
    IF dead
    THEN [inflight |-> pending, err |-> "DeadConnection"]
    ELSE [inflight |-> pending \cup {robot}, err |-> NoError]

\* Robot._reportError(failure): whether an error message goes to the
\* connection
ReportError(g, robot) ==
    IF g.sessions[robot].connection = None
    THEN [out |-> FALSE, err |-> "AttributeError"]
    ELSE [out |-> TRUE, err |-> NoError]

(***************************************************************************)
(* The distributor of the master, rce/master/robot.py.                     *)
(***************************************************************************)
MaxActive == 2

Endpoints == {"e1", "e2", "e3"}

NoLocation == [endpoint |-> "", err |-> NoError, turn |-> 0]

\* Distributor.registerRobotProcess(robot), called by RobotEndpoint.__init__
RegisterRobotProcess(rs, e) ==
    IF e \in rs
    THEN [robots |-> rs, err |-> "AssertionError"]
    ELSE [robots |-> rs \cup {e}, err |-> NoError]

\* Distributor.unregisterRobotProcess(robot), called by RobotEndpoint.destroy
UnregisterRobotProcess(rs, e) ==
    IF e \notin rs
    THEN [robots |-> rs, err |-> "AssertionError"]
    ELSE [robots |-> rs \ {e}, err |-> NoError]

\* RobotEndpoint.active: the number of namespaces of the endpoint
Active(act, e) == act[e]

AnyRegistered(rs, act) == rs

\* the values min(self._robots, key=lambda r: r.active) can have: the
\* iteration order of a set decides among the endpoints of least active
MinByActive(rs, act) ==
    {e \in rs : \A f \in rs : Active(act, e) <= Active(act, f)}

\* Distributor.getNextLocation()
GetNextLocation(rs, act) ==
    IF rs = {}
    THEN {[endpoint |-> "", err |-> "RobotProcessError"]}
    ELSE {[endpoint |-> e, err |-> NoError] : e \in MinByActive(rs, act)}

\* Robot.sendToClient(iTag, msgType, msgID, msg): whether
\* self._connection.sendDataMessage is called
SendToClient(g, robot) == g.sessions[robot].connection # None

(***************************************************************************)
(* State of one connection.                                                *)
(***************************************************************************)
VARIABLES
    robot,           \* self._robot: None or the session
    incompleteMsgs,  \* self._incompleteMsgs: the reassembly buffer
    open,            \* the WebSocket is connected
    now,             \* datetime.now()
    nextSweep,       \* when the LoopingCall runs _cleanUp next
    rpcs,            \* the dispatches made downstream, in order
    wsOut,           \* the text frames sent to the robot, in order
    inbox,           \* history: the frames received, each with the exception
                     \* its handling raised, the text frames sent back
                     \* while it was handled and the time of its arrival
    lastFill,        \* history: the slot the last binary frame filled
    outbound,        \* the last call of sendMessage: the message handed over,
                     \* the frames emitted and the exception raised
    fedBack,         \* how many of these frames were fed back to onMessage,
                     \* and the arrival number of the first of them
    robots,          \* RobotClient._robots
    pendingRobots,   \* RobotClient._pendingRobots: (userID, robotID) -> key, robot
    deathCandidates, \* RobotClient._deathCandidates: robot -> its DelayedCall
    timers,          \* the DelayedCalls made by callLater, with their status
    sessions,        \* the Robot objects made: user, connection, interfaces
    passed,          \* per id, the logins that passed requestAvatarId and
                     \* have requestAvatar still to come
    published,       \* history: the ids for which createNamespace was called
                     \* with no login completed and no terminate since
    last,            \* history: the last gateway operation and its outcome
    owner,           \* history: the id each session was made for
    userDead,        \* the channel of the user reference is gone
    inflight,        \* the sessions with an RPC whose Deferred has not fired
    distRobots,      \* Distributor._robots
    active,          \* per robot endpoint, its number of namespaces
    location         \* history: what the last getNextLocation gave

handlerVars == <<robot, incompleteMsgs, open, now, nextSweep, rpcs, wsOut, inbox, lastFill>>

outVars == <<outbound, fedBack>>

gatewayVars == <<robots, pendingRobots, deathCandidates, timers, sessions>>

rpcVars == <<userDead, inflight>>

distVars == <<distRobots, active, location>>

moreVars == <<owner, rpcVars, distVars>>

gwVars == <<gatewayVars, passed, published, last, moreVars>>

vars == <<handlerVars, outVars, gwVars>>

\* the gateway state the operations work on
Gateway ==
    [robots |-> robots, pendingRobots |-> pendingRobots,
     deathCandidates |-> deathCandidates, timers |-> timers, sessions |-> sessions]

NoOperation ==
    [op |-> "none", uid |-> NoUid, key |-> "", tag |-> "", robot |-> NoRobot,
     err |-> NoError, out |-> FALSE, to |-> "", after |-> NoError]

Init ==
    /\ robot = None
    /\ incompleteMsgs = <<>>
    /\ open = TRUE
    /\ now = 0
    /\ nextSweep = SweepPeriod
    /\ rpcs = <<>>
    /\ wsOut = <<>>
    /\ inbox = <<>>
    /\ lastFill = NoFill
    /\ outbound = NothingSent
    /\ fedBack = [n |-> 0, first |-> 0]
    /\ robots = {}
    /\ pendingRobots = <<>>
    /\ deathCandidates = <<>>
    /\ timers = <<>>
    /\ sessions = <<>>
    /\ passed = [uid \in Uids |-> 0]
    /\ published = {}
    /\ last = NoOperation
    /\ owner = <<>>
    /\ userDead = FALSE
    /\ inflight = {}
    /\ distRobots = {}
    /\ active = [e \in Endpoints |-> 0]
    /\ location = NoLocation

\* json.loads(msg)
JsonLoads(frame) ==
    IF frame.wellFormed THEN [value |-> frame.value, err |-> NoError]
    ELSE [value |-> frame.value, err |-> "ValueError"]

\* the try block of onMessage
Handle(frame) ==
    IF frame.binary
    THEN BinaryMsgHandle(frame.bytes, robot, incompleteMsgs)
    ELSE LET parsed == JsonLoads(frame) IN
         IF parsed.err # NoError
         THEN [robot |-> robot, incompleteMsgs |-> incompleteMsgs, calls |-> <<>>,
               err |-> parsed.err, fill |-> NoFill, from |-> 0]
         ELSE LET done == StrMsgHandle(parsed.value, robot, incompleteMsgs, now,
                                       Len(inbox) + 1)
              IN [robot |-> done.robot, incompleteMsgs |-> done.incompleteMsgs,
                  calls |-> done.calls, err |-> done.err, fill |-> NoFill,
                  from |-> Len(inbox) + 1]

SendTracebackSwallowed(out, err) == out

\* except Exception: WebSocketServerProtocol.sendMessage(self, traceback.format_exc())
\* (the text names the exception raised)
SendTraceback(out, err) == IF err = NoError THEN out ELSE Append(out, err)

\* a dispatch with its history: from, the arrival number of the text frame
\* it comes from, and at, the arrival number of the frame handled when it
\* was made
Dispatched(calls, from, at) ==
    [i \in 1..Len(calls) |->
        [name |-> calls[i].name, args |-> calls[i].args, data |-> calls[i].data,
         from |-> from, at |-> at]]

\* onMessage(msg, binary)
OnMessage(frame) ==
    LET done == Handle(frame) IN
    /\ robot' = done.robot
    /\ incompleteMsgs' = done.incompleteMsgs
    /\ rpcs' = rpcs \o Dispatched(done.calls, done.from, Len(inbox) + 1)
    /\ wsOut' = SendTraceback(wsOut, done.err)
    /\ inbox' = Append(inbox, [frame |-> frame, err |-> done.err, time |-> now,
                               reply |-> SubSeq(wsOut', Len(wsOut) + 1, Len(wsOut'))])
    /\ lastFill' = done.fill
    /\ UNCHANGED <<open, now, nextSweep>>

Receive ==
    /\ open
    /\ Len(inbox) < MaxFrames
    /\ \E frame \in Frames : OnMessage(frame)
    /\ UNCHANGED <<outVars, gwVars>>

ReceiveReassembly ==
    /\ open
    /\ Len(inbox) < MaxFrames
    /\ \E frame \in ReassemblyFrames : OnMessage(frame)
    /\ UNCHANGED <<outVars, gwVars>>

\* connectionLost(reason)
ConnectionLost ==
    /\ open
    /\ open' = FALSE
    /\ robot' = None
    /\ UNCHANGED <<incompleteMsgs, now, nextSweep, rpcs, wsOut, inbox, lastFill>>
    /\ UNCHANGED <<outVars, gwVars>>

\* time passes; a sweep that is due runs before the clock moves on
Tick ==
    /\ now < MaxTime
    /\ now < nextSweep
    /\ now' = now + 1
    /\ UNCHANGED <<robot, incompleteMsgs, open, nextSweep, rpcs, wsOut, inbox, lastFill>>
    /\ UNCHANGED <<outVars, gwVars>>

\* _cleanUp(), run by the LoopingCall every MSG_QUQUE_TIMEOUT/4
CleanUp ==
    /\ now = nextSweep
    /\ incompleteMsgs' = CleanUpList(incompleteMsgs, now)
    /\ nextSweep' = now + SweepPeriod
    /\ UNCHANGED <<robot, open, now, rpcs, wsOut, inbox, lastFill>>
    /\ UNCHANGED <<outVars, gwVars>>

\* the robot's first frame, which binds the session
Bind ==
    /\ open
    /\ inbox = <<>>
    /\ OnMessage(CreateContainer("c1"))
    /\ UNCHANGED <<outVars, gwVars>>

\* sendMessage(msg)
SendMessage ==
    /\ open
    /\ Len(inbox) + Len(outbound.frames) < MaxSends * 3
    /\ fedBack.n = Len(outbound.frames)
    /\ \E tree \in OutTrees : outbound' = SendMessageFrames("i1", tree)
    /\ fedBack' = [n |-> 0, first |-> 0]
    /\ UNCHANGED <<handlerVars, gwVars>>

\* the peer sends the frames of the last message back in the order of their
\* emission
LoopBack ==
    /\ open
    /\ fedBack.n < Len(outbound.frames)
    /\ OnMessage(outbound.frames[fedBack.n + 1])
    /\ fedBack' = [n |-> fedBack.n + 1,
                   first |-> IF fedBack.n = 0 THEN Len(inbox) + 1 ELSE fedBack.first]
    /\ UNCHANGED <<outbound, gwVars>>

\* the gateway state an operation leaves
Becomes(g) ==
    /\ robots' = g.robots
    /\ pendingRobots' = g.pendingRobots
    /\ deathCandidates' = g.deathCandidates
    /\ timers' = g.timers
    /\ sessions' = g.sessions

Operation(op, uid, r, err, out, after) ==
    [op |-> op, uid |-> uid, key |-> "", tag |-> "", robot |-> r, err |-> err,
     out |-> out, to |-> "", after |-> after]

RECURSIVE Sum(_, _)
Sum(f, S) == IF S = {} THEN 0 ELSE LET x == CHOOSE y \in S : TRUE IN f[x] + Sum(f, S \ {x})

LoginsUnderWay == Sum(passed, Uids)

\* the master calls remote_createNamespace
CreateNamespace ==
    /\ Len(sessions) < MaxSessions
    /\ \E uid \in Uids, key \in Keys :
          LET done == RemoteCreateNamespace(Gateway, "user", uid, key) IN
          /\ Becomes(done.g)
          /\ published' = published \cup {uid}
          /\ last' = [Operation("createNamespace", uid,
                                 IF done.err = NoError THEN Len(done.g.sessions)
                                 ELSE NoRobot,
                                 done.err, FALSE, NoError) EXCEPT !.key = key]
    /\ owner' = IF Len(sessions') > Len(sessions) THEN Append(owner, last'.uid) ELSE owner
    /\ UNCHANGED <<handlerVars, outVars, passed, rpcVars, distVars>>

\* a robot presents its credentials: Portal.login calls requestAvatarId
Authenticate ==
    /\ \E uid \in Uids, key \in Keys :
          LET done == RequestAvatarId(Gateway, uid, key) IN
          /\ done.err = NoError => LoginsUnderWay < MaxLogins
          /\ passed' = IF done.err = NoError THEN [passed EXCEPT ![uid] = @ + 1]
                        ELSE passed
          /\ last' = [Operation("requestAvatarId", uid, NoRobot, done.err,
                                 done.avatarId = uid, NoError) EXCEPT !.key = key]
    /\ UNCHANGED <<handlerVars, outVars, gatewayVars, published>>
    /\ UNCHANGED moreVars

\* Portal.login goes on with requestAvatar; the protocol attaches its
\* connection to the avatar it gets
Login ==
    /\ \E uid \in Uids :
          /\ passed[uid] > 0
          /\ LET got == RequestAvatar(Gateway, uid)
                 done == IF got.err # NoError THEN Raise(got.g, NoError)
                         ELSE RegisterConnectionToRobot(got.g, got.robot, "ws")
             IN /\ Becomes(done.g)
                /\ passed' = [passed EXCEPT ![uid] = @ - 1]
                /\ published' = IF got.err = NoError THEN published \ {uid}
                                 ELSE published
                /\ last' = Operation("requestAvatar", uid, got.robot, got.err,
                                      got.err = NoError, done.err)
    /\ UNCHANGED <<handlerVars, outVars>>
    /\ UNCHANGED moreVars

\* the WebSocket of a session closes
WebSocketClosed ==
    /\ \E r \in 1..Len(sessions) :
          /\ sessions[r].connection # None
          /\ LET done == UnregisterConnectionToRobot(Gateway, r) IN
             /\ Becomes(done.g)
             /\ last' = Operation("unregisterConnectionToRobot", NoUid, r, done.err,
                                   FALSE, NoError)
    /\ UNCHANGED <<handlerVars, outVars, passed, published>>
    /\ UNCHANGED moreVars

\* a DelayedCall that was not cancelled fires
TimerFires ==
    /\ \E t \in 1..Len(timers) :
          /\ timers[t].status = "armed"
          /\ LET done == KillRobot([Gateway EXCEPT !.timers[t].status = "fired"],
                                   timers[t].robot)
             IN /\ Becomes(done.g)
                /\ last' = Operation("_killRobot", NoUid, timers[t].robot, done.err,
                                      FALSE, NoError)
    /\ UNCHANGED <<handlerVars, outVars, passed, published>>
    /\ UNCHANGED moreVars

\* the master, or the logout of a connection, calls remote_destroy
Destroy ==
    /\ \E r \in 1..Len(sessions) :
          LET done == RemoteDestroy(Gateway, r) IN
          /\ Becomes(done.g)
          /\ last' = Operation("remote_destroy", NoUid, r, done.err, FALSE, NoError)
    /\ UNCHANGED <<handlerVars, outVars, passed, published>>
    /\ UNCHANGED moreVars

\* the reactor shuts down
Shutdown ==
    /\ LET done == Terminate(Gateway) IN
       /\ Becomes(done.g)
       /\ last' = Operation("terminate", NoUid, NoRobot, done.err, FALSE, NoError)
    /\ published' = {}
    /\ UNCHANGED <<handlerVars, outVars, passed>>
    /\ UNCHANGED moreVars

\* the master calls remote_createInterface of a session it holds; the
\* interface made registers itself
CreateInterface ==
    /\ \E r \in robots, tag \in Tags :
          LET done == RegisterInterface(Gateway, r, tag) IN
          /\ Becomes(done.g)
          /\ last' = [Operation("remote_createInterface", NoUid, r, done.err, FALSE,
                                 NoError) EXCEPT !.tag = tag]
    /\ UNCHANGED <<handlerVars, outVars, passed, published>>
    /\ UNCHANGED moreVars

\* an interface calls sendToClient
InterfaceSends ==
    /\ \E r \in 1..Len(sessions) :
          last' = Operation("sendToClient", NoUid, r, NoError,
                            SendToClient(Gateway, r), NoError)
    /\ UNCHANGED <<handlerVars, outVars, gatewayVars, passed, published>>
    /\ UNCHANGED moreVars

\* the robot of a Live session sends a data message: the protocol calls
\* receivedFromClient
ClientSends ==
    /\ \E r \in 1..Len(sessions), tag \in Tags :
          /\ sessions[r].connection # None
          /\ LET done == ReceivedFromClient(Gateway, r, tag) IN
             last' = [Operation("receivedFromClient", NoUid, r, done.err,
                                done.to # "", NoError)
                         EXCEPT !.tag = tag, !.to = done.to]
    /\ UNCHANGED <<handlerVars, outVars, gatewayVars, passed, published>>
    /\ UNCHANGED moreVars

\* the connection to the master process of the user reference is lost
MasterChannelLost ==
    /\ ~userDead
    /\ userDead' = TRUE
    /\ UNCHANGED <<handlerVars, outVars, gatewayVars, passed, published, last>>
    /\ UNCHANGED <<owner, inflight, distVars>>

\* the robot of a session with a WebSocket sends a request; the handler
\* calls the method of the session, and onMessage answers an exception
\* that comes out of it with its traceback
RobotCalls ==
    /\ \E r \in 1..Len(sessions) :
          /\ sessions[r].connection # None
          /\ LET done == RobotCallRemote(userDead, inflight, r) IN
             /\ inflight' = done.inflight
             /\ last' = Operation("callRemote", NoUid, r, done.err,
                                   done.err # NoError, NoError)
    /\ UNCHANGED <<handlerVars, outVars, gatewayVars, passed, published>>
    /\ UNCHANGED <<owner, userDead, distVars>>

\* the Deferred of a remote call fires its errback
RpcFails ==
    /\ \E r \in inflight :
          /\ inflight' = inflight \ {r}
          /\ LET done == ReportError(Gateway, r) IN
             last' = Operation("_reportError", NoUid, r, done.err, done.out, NoError)
    /\ UNCHANGED <<handlerVars, outVars, gatewayVars, passed, published>>
    /\ UNCHANGED <<owner, userDead, distVars>>

\* the Deferred of a remote call fires with a result
RpcReturns ==
    /\ \E r \in inflight :
          /\ inflight' = inflight \ {r}
          /\ last' = Operation("callback", NoUid, r, NoError, FALSE, NoError)
    /\ UNCHANGED <<handlerVars, outVars, gatewayVars, passed, published>>
    /\ UNCHANGED <<owner, userDead, distVars>>

NextRpc ==
    \/ CreateNamespace
    \/ Authenticate
    \/ Login
    \/ WebSocketClosed
    \/ TimerFires
    \/ MasterChannelLost
    \/ RobotCalls
    \/ RpcFails
    \/ RpcReturns

SpecRpc == Init /\ [][NextRpc]_vars

\* a robot process connects to the master: a RobotEndpoint is made
EndpointCreated ==
    /\ \E e \in Endpoints \ distRobots :
          LET done == RegisterRobotProcess(distRobots, e) IN
          /\ distRobots' = done.robots
          /\ active' = [active EXCEPT ![e] = 0]
    /\ UNCHANGED <<handlerVars, outVars, gatewayVars, passed, published, last>>
    /\ UNCHANGED <<owner, rpcVars, location>>

\* RobotEndpoint.destroy()
EndpointDestroyed ==
    /\ \E e \in distRobots :
          distRobots' = UnregisterRobotProcess(distRobots, e).robots
    /\ UNCHANGED <<handlerVars, outVars, gatewayVars, passed, published, last>>
    /\ UNCHANGED <<owner, rpcVars, active, location>>

\* a namespace of an endpoint is made
NamespaceCreated ==
    /\ \E e \in distRobots :
          /\ active[e] < MaxActive
          /\ active' = [active EXCEPT ![e] = @ + 1]
    /\ UNCHANGED <<handlerVars, outVars, gatewayVars, passed, published, last>>
    /\ UNCHANGED <<owner, rpcVars, distRobots, location>>

\* a namespace of an endpoint is destroyed
NamespaceDestroyed ==
    /\ \E e \in distRobots :
          /\ active[e] > 0
          /\ active' = [active EXCEPT ![e] = @ - 1]
    /\ UNCHANGED <<handlerVars, outVars, gatewayVars, passed, published, last>>
    /\ UNCHANGED <<owner, rpcVars, distRobots, location>>

\* the master asks the distributor for the robot process of a new robot
NextLocation ==
    /\ \E got \in GetNextLocation(distRobots, active) :
          location' = [endpoint |-> got.endpoint, err |-> got.err,
                       turn |-> 1 - location.turn]
    /\ UNCHANGED <<handlerVars, outVars, gatewayVars, passed, published, last>>
    /\ UNCHANGED <<owner, rpcVars, distRobots, active>>

NextDistributor ==
    \/ EndpointCreated
    \/ EndpointDestroyed
    \/ NamespaceCreated
    \/ NamespaceDestroyed
    \/ NextLocation

SpecDistributor == Init /\ [][NextDistributor]_vars

\* the frames of one connection within one sweep period
Next == Receive \/ ConnectionLost

Spec == Init /\ [][Next]_vars

\* the reassembly frames, the clock and the sweep
NextTimed == ReceiveReassembly \/ Tick \/ CleanUp \/ ConnectionLost

SpecTimed == Init /\ [][NextTimed]_vars

\* messages sent to a peer that sends them back
NextOut == Bind \/ SendMessage \/ LoopBack

SpecOut == Init /\ [][NextOut]_vars

\* the gateway with its master, robots and timers
NextGateway ==
    \/ CreateNamespace
    \/ Authenticate
    \/ Login
    \/ WebSocketClosed
    \/ TimerFires
    \/ Destroy
    \/ Shutdown
    \/ CreateInterface
    \/ InterfaceSends
    \/ ClientSends

SpecGateway == Init /\ [][NextGateway]_vars

(***************************************************************************)
(* Vocabulary of the properties.                                           *)
(***************************************************************************)
SEND == "sendROSMsgToContainer"

IsObject(frame) ==
    ~frame.binary /\ frame.wellFormed /\ frame.value.top = "object"

IsOfType(frame, type) ==
    IsObject(frame) /\ Has(frame.value.obj, "type") /\ Has(frame.value.obj, "data")
    /\ frame.value.obj.type = type

IsDataMessage(frame) ==
    IsOfType(frame, MESSAGE) /\ Has(frame.value.obj.data, "msg")

TreeOf(frame) == frame.value.obj.data.msg

\* the dispatches made while frame n was handled
DispatchesAt(n) == SelectSeq(rpcs, LAMBDA r : r.at = n)

\* the places in rpcs of the deliveries of the DataMessage that arrived as frame n
DeliveriesOf(n) == {i \in 1..Len(rpcs) : rpcs[i].name = SEND /\ rpcs[i].from = n}

(***************************************************************************)
(* C1: every DataMessage dispatched downstream holds no key ending in '*'  *)
(* at any depth of its message tree.                                       *)
(***************************************************************************)
C1_NoPlaceholderDispatched ==
    \A i \in 1..Len(rpcs) : rpcs[i].name = SEND => ~HasStarKey(rpcs[i].data)

(***************************************************************************)
(* C2: a DataMessage is dispatched exactly once and only when none of its  *)
(* slots is missing: on arrival when its tree holds no placeholder key,    *)
(* otherwise at the binary frame that fills its last missing URI, when its *)
(* entry leaves the buffer; a parked message with a slot missing is never  *)
(* dispatched.                                                             *)
(***************************************************************************)
C2_DispatchedOnceWhenComplete ==
    /\ \A n \in 1..Len(inbox) :
          IsDataMessage(inbox[n].frame) =>
             /\ Cardinality(DeliveriesOf(n)) <= 1
             /\ IF ~HasStarKey(TreeOf(inbox[n].frame))
                THEN \E i \in DeliveriesOf(n) : rpcs[i].at = n
                ELSE \A i \in DeliveriesOf(n) :
                        /\ rpcs[i].at > n
                        /\ inbox[rpcs[i].at].frame.binary
                        /\ ~HasStarKey(rpcs[i].data)
    /\ \A k \in 1..Len(incompleteMsgs) :
          /\ incompleteMsgs[k].uriList # <<>>
          /\ DeliveriesOf(incompleteMsgs[k].frame) = {}

(***************************************************************************)
(* C3: when the first 32 bytes of a binary frame equal a missing URI, the  *)
(* placeholder key k is removed from its parent object and the parent      *)
(* gains k without its trailing '*', whose value is the frame's bytes from *)
(* position 32 to the end.                                                 *)
(***************************************************************************)
C3_PayloadInstalled ==
    lastFill.hit =>
        /\ lastFill.key \notin DOMAIN lastFill.parent
        /\ StripLast(lastFill.key) \in DOMAIN lastFill.parent
        /\ lastFill.parent[StripLast(lastFill.key)]
              = Bin(SubSeq(lastFill.frame, URI_LEN + 1, Len(lastFill.frame)))

(***************************************************************************)
(* C4: a run of the sweep leaves exactly the entries whose age did not     *)
(* exceed MSG_QUEUE_TIMEOUT, in their order; every older entry is removed, *)
(* also when every entry is older.                                         *)
(***************************************************************************)
C4_SweepDropsOld ==
    [][nextSweep' # nextSweep =>
          incompleteMsgs' =
              SelectSeq(incompleteMsgs, LAMBDA e : now - e.time <= MSG_QUEUE_TIMEOUT)]_vars

(***************************************************************************)
(* C5: no parked message is dispatched downstream once its age exceeds     *)
(* MSG_QUEUE_TIMEOUT.                                                      *)
(***************************************************************************)
C5_NoStaleDelivery ==
    \A i \in 1..Len(rpcs) :
        (rpcs[i].name = SEND /\ rpcs[i].from < rpcs[i].at) =>
            inbox[rpcs[i].at].time - inbox[rpcs[i].from].time <= MSG_QUEUE_TIMEOUT

(***************************************************************************)
(* C6: a failure raised while one frame (text or binary) is handled        *)
(* produces exactly one text frame on the WebSocket and does not close the *)
(* connection, which stays able to take the frames that follow; a frame    *)
(* handled without failure produces none.                                  *)
(***************************************************************************)
C6_FailureAnswered ==
    [][Len(inbox') > Len(inbox) =>
          /\ open /\ open'
          /\ IF inbox'[Len(inbox')].err # NoError
             THEN wsOut' = Append(wsOut, inbox'[Len(inbox')].err)
             ELSE wsOut' = wsOut]_vars

\* a binary frame failed, was answered with one text frame, and the frame
\* after it was handled and dispatched
C6_Witness ==
    /\ open
    /\ \E n \in 1..Len(inbox) :
          /\ inbox[n].frame.binary
          /\ inbox[n].err # NoError
          /\ inbox[n].reply = <<inbox[n].err>>
          /\ n < Len(inbox)
          /\ inbox[n + 1].err = NoError
          /\ DispatchesAt(n + 1) # <<>>
    /\ Len(wsOut) = 1

(***************************************************************************)
(* C7: a text frame with an unknown type, a missing required field,        *)
(* malformed JSON or a top level that is not an object is answered with a  *)
(* text error frame of kind InvalidRequest; an unknown type dispatches no  *)
(* RPC.                                                                    *)
(***************************************************************************)
KnownTypes ==
    {CREATE_CONTAINER, DESTROY_CONTAINER, CHANGE_COMPONENT, INTERFACE_STATE, MESSAGE,
     "ConnectInterfaces"}

UnknownType(frame) ==
    IsObject(frame) /\ Has(frame.value.obj, "type")
    /\ frame.value.obj.type \notin KnownTypes

WellFormedList(data, field, fields) ==
    Has(data, field) => \A i \in 1..Len(data[field]) : fields \subseteq DOMAIN data[field][i]

WellFormedConfig(data) ==
    /\ WellFormedList(data, "addNodes", {"nodeTag", "pkg", "exe", "namespace"})
    /\ WellFormedList(data, "addInterfaces", {"name", "interfaceType", "className"})
    /\ WellFormedList(data, "setParam", {"paramName", "paramValue", "paramType"})

MissingField(frame) ==
    /\ IsObject(frame)
    /\ LET msg == frame.value.obj IN
       \/ ~Has(msg, "type")
       \/ ~Has(msg, "data")
       \/ /\ msg.type \in {CREATE_CONTAINER, DESTROY_CONTAINER}
          /\ ~Has(msg.data, "containerTag")
       \/ msg.type = MESSAGE /\ ~Has(msg.data, "msg")
       \/ msg.type = CHANGE_COMPONENT /\ ~WellFormedConfig(msg.data)

Invalid(frame) ==
    /\ ~frame.binary
    /\ \/ ~frame.wellFormed
       \/ frame.value.top # "object"
       \/ MissingField(frame)
       \/ UnknownType(frame)

C7_InvalidRequestAnswered ==
    \A n \in 1..Len(inbox) :
        Invalid(inbox[n].frame) =>
            /\ inbox[n].reply = <<"InvalidRequest">>
            /\ UnknownType(inbox[n].frame) => DispatchesAt(n) = <<>>

(***************************************************************************)
(* C8: downstream dispatches happen in the order in which their            *)
(* originating text frames arrived, also for DataMessages that wait in the *)
(* buffer while later frames arrive; CreateContainer followed by           *)
(* DestroyContainer yields exactly createContainer then destroyContainer   *)
(* and no WebSocket output.                                                *)
(***************************************************************************)
NameAndArgs(calls) == [i \in 1..Len(calls) |-> <<calls[i].name, calls[i].args>>]

CreateThenDestroy ==
    (/\ Len(inbox) >= 2
     /\ inbox[1].frame = CreateContainer("c1")
     /\ inbox[2].frame = DestroyContainer("c1"))
    => /\ NameAndArgs(SelectSeq(rpcs, LAMBDA r : r.at <= 2))
             = <<<<"createContainer", <<"c1">>>>, <<"destroyContainer", <<"c1">>>>>>
       /\ inbox[1].reply = <<>>
       /\ inbox[2].reply = <<>>

C8_ArrivalOrder ==
    /\ \A i, j \in 1..Len(rpcs) : i < j => rpcs[i].from <= rpcs[j].from
    /\ CreateThenDestroy

(***************************************************************************)
(* C8 as amended: dispatches happen in the order of arrival of the frames  *)
(* that trigger them.  An RPC, or a DataMessage without placeholder, is    *)
(* dispatched while its own text frame is handled; a parked DataMessage is *)
(* dispatched while a later binary frame is handled, so after the          *)
(* dispatches of the text frames that arrived while it waited.             *)
(* CreateContainer followed by DestroyContainer yields exactly             *)
(* createContainer then destroyContainer and no WebSocket output.          *)
(***************************************************************************)
C8_TriggerOrder ==
    /\ \A i, j \in 1..Len(rpcs) : i < j => rpcs[i].at <= rpcs[j].at
    /\ \A i \in 1..Len(rpcs) :
          /\ rpcs[i].from >= 1 /\ rpcs[i].from <= rpcs[i].at /\ rpcs[i].at <= Len(inbox)
          /\ ~inbox[rpcs[i].from].frame.binary
          /\ rpcs[i].from < rpcs[i].at =>
                /\ rpcs[i].name = SEND
                /\ IsDataMessage(inbox[rpcs[i].from].frame)
                /\ inbox[rpcs[i].at].frame.binary
    /\ CreateThenDestroy

\* a parked DataMessage was dispatched after the RPC of a text frame that
\* arrived after it
C8_Witness ==
    \E i, j \in 1..Len(rpcs) :
        /\ i < j
        /\ rpcs[i].from > rpcs[j].from
        /\ rpcs[j].name = SEND
        /\ rpcs[i].name = "createContainer"

(***************************************************************************)
(* C9: a ConfigureComponent frame issues exactly one RPC per element of    *)
(* each list it holds (addNodes -> addNode, removeNodes -> removeNode,     *)
(* addInterfaces -> addInterface, removeInterfaces -> removeInterface,     *)
(* setParam -> addParameter, deleteParam -> removeParameter), the elements *)
(* of a list in list order, all against the frame's dest; a list it does   *)
(* not hold issues nothing.                                                *)
(***************************************************************************)
RpcOf ==
    [addNodes |-> "addNode", removeNodes |-> "removeNode",
     addInterfaces |-> "addInterface", removeInterfaces |-> "removeInterface",
     setParam |-> "addParameter", deleteParam |-> "removeParameter"]

\* what names an element: its tag or name
NameOfElement(field, x) ==
    CASE field = "addNodes" -> x.nodeTag
      [] field = "addInterfaces" -> x.name
      [] field = "setParam" -> x.paramName
      [] OTHER -> x

C9_OneRpcPerElement ==
    \A n \in 1..Len(inbox) :
        (/\ IsOfType(inbox[n].frame, CHANGE_COMPONENT)
         /\ WellFormedConfig(inbox[n].frame.value.obj.data)) =>
            LET msg == inbox[n].frame.value.obj
                calls == DispatchesAt(n)
            IN /\ \A i \in 1..Len(calls) :
                     /\ calls[i].name \in {RpcOf[f] : f \in ListNames \cap DOMAIN msg.data}
                     /\ calls[i].args[1] = msg.dest
               /\ \A f \in ListNames \cap DOMAIN msg.data :
                     LET made == SelectSeq(calls, LAMBDA c : c.name = RpcOf[f])
                     IN [i \in 1..Len(made) |-> made[i].args[2]]
                           = [i \in 1..Len(msg.data[f]) |-> NameOfElement(f, msg.data[f][i])]

(***************************************************************************)
(* C10: a ConnectInterfaces frame causes one addConnection(tagA, tagB) for *)
(* every pair of its connect list and one removeConnection(tagA, tagB) for *)
(* every pair of its disconnect list, and is not rejected as an            *)
(* unsupported type.                                                       *)
(***************************************************************************)
C10_ConnectInterfacesDispatched ==
    \A n \in 1..Len(inbox) :
        IsOfType(inbox[n].frame, "ConnectInterfaces") =>
            LET data == inbox[n].frame.value.obj.data
                added == SelectSeq(DispatchesAt(n), LAMBDA c : c.name = "addConnection")
                removed == SelectSeq(DispatchesAt(n), LAMBDA c : c.name = "removeConnection")
            IN /\ inbox[n].err # "InvalidRequest"
               /\ [i \in 1..Len(added) |-> added[i].args] = data.connect
               /\ [i \in 1..Len(removed) |-> removed[i].args] = data.disconnect

(***************************************************************************)
(* Vocabulary of the outbound properties.                                  *)
(***************************************************************************)
RECURSIVE Flatten(_)
Flatten(seqs) == IF seqs = <<>> THEN <<>> ELSE Head(seqs) \o Flatten(Tail(seqs))

\* the blobs of a tree in the order of their discovery: those of the nested
\* objects as the items are visited, then those the object holds itself
RECURSIVE BlobsOf(_)
BlobsOf(multidict) ==
    LET ks == KeySeq(multidict)
    IN Flatten([i \in 1..Len(ks) |->
                   IF multidict[ks[i]].t = "dict" THEN BlobsOf(multidict[ks[i]].d)
                   ELSE <<>>])
       \o Flatten([i \in 1..Len(ks) |->
                      IF multidict[ks[i]].t = "bin" THEN <<multidict[ks[i]]>> ELSE <<>>])

\* the URIs a text frame holds under its keys that end in '*'
UrisIn(frame) ==
    LET list == RecursiveURISearch(TreeOf(frame)).list
    IN [i \in 1..Len(list) |-> list[i].uri.v]

(***************************************************************************)
(* C11: the frames emitted for an outbound message are one text frame      *)
(* followed by one binary frame per blob, in the order in which the blobs  *)
(* were discovered; the URIs in the text frame are pairwise distinct and   *)
(* each is the 32-character prefix of exactly one of the binary frames.    *)
(***************************************************************************)
C11_TextThenBlobs ==
    outbound.sent =>
        LET blobs == BlobsOf(outbound.tree)
            frames == outbound.frames
            uris == UrisIn(frames[1])
        IN /\ Len(frames) = 1 + Len(blobs)
           /\ ~frames[1].binary
           /\ \A i \in 1..Len(blobs) :
                 /\ frames[i + 1].binary
                 /\ SubSeq(frames[i + 1].bytes, URI_LEN + 1, Len(frames[i + 1].bytes))
                       = blobs[i].v
           /\ \A i, j \in 1..Len(uris) : uris[i] = uris[j] => i = j
           /\ \A i \in 1..Len(uris) :
                 Cardinality({n \in 2..Len(frames) :
                                 SubSeq(frames[n].bytes, 1, URI_LEN) = uris[i]}) = 1

(***************************************************************************)
(* C12: round trip.  When the text frame and then the binary frames        *)
(* emitted for a message with blobs have gone through the inbound path in  *)
(* the order of their emission, one message was dispatched for them, and   *)
(* it has the structure of the original, every blob key holding the bytes  *)
(* of the original blob.                                                   *)
(***************************************************************************)
C12_RoundTrip ==
    (/\ outbound.sent
     /\ BlobsOf(outbound.tree) # <<>>
     /\ fedBack.n = 1 + Len(BlobsOf(outbound.tree))
     /\ inbox[1].frame = CreateContainer("c1"))
    => LET got == SelectSeq(rpcs, LAMBDA r : r.at >= fedBack.first)
       IN /\ Len(got) = 1
          /\ got[1].name = SEND
          /\ got[1].args = <<outbound.dest>>
          /\ got[1].data = outbound.tree

(***************************************************************************)
(* Vocabulary of the gateway properties.                                   *)
(***************************************************************************)
\* the timers of a session that are neither cancelled nor fired
ArmedTimers(ts, r) == {t \in 1..Len(ts) : ts[t].robot = r /\ ts[t].status = "armed"}

IsPending(r) == \E uid \in DOMAIN pendingRobots : pendingRobots[uid].robot = r

\* the connection state of a session
StateOf(r) ==
    IF sessions[r].destroyed THEN "Destroyed"
    ELSE IF sessions[r].connection # None THEN "Live"
    ELSE IF IsPending(r) THEN "Pending"
    ELSE "Orphaned"

(***************************************************************************)
(* C13: every session in deathCandidates has exactly one armed timer and   *)
(* no WebSocket; every session in robots without a WebSocket is in         *)
(* deathCandidates; a Live session has a WebSocket and is not in           *)
(* deathCandidates.                                                        *)
(***************************************************************************)
C13_DeathCandidatesArmed ==
    /\ \A r \in DOMAIN deathCandidates :
          /\ Cardinality(ArmedTimers(timers, r)) = 1
          /\ timers[deathCandidates[r]].status = "armed"
          /\ sessions[r].connection = None
    /\ \A r \in robots : sessions[r].connection = None => r \in DOMAIN deathCandidates
    /\ \A r \in 1..Len(sessions) :
          StateOf(r) = "Live" =>
              /\ sessions[r].connection # None
              /\ r \notin DOMAIN deathCandidates
              /\ ArmedTimers(timers, r) = {}

\* a Live session beside an Orphaned one that waits for its timer
C13_Witness ==
    \E r, q \in robots :
        /\ StateOf(r) = "Live"
        /\ StateOf(q) = "Orphaned"
        /\ q \in DOMAIN deathCandidates
        /\ Len(timers) > 2

(***************************************************************************)
(* C14: pendingRobots has an entry for an id if and only if the master has *)
(* called createNamespace for it with no login for it completed (its       *)
(* session handed out by requestAvatar) and no terminate() since.          *)
(***************************************************************************)
C14_PendingIffPublished == DOMAIN pendingRobots = published

\* one id's login is through, its entry gone, while another id still waits
C14_Witness ==
    /\ last.op = "requestAvatar"
    /\ last.out
    /\ last.uid \notin DOMAIN pendingRobots
    /\ DOMAIN pendingRobots # {}

(***************************************************************************)
(* C15: requestAvatarId succeeds, returning the id, if and only if         *)
(* pendingRobots has an entry for the id supplied and the key supplied     *)
(* matches the key of that entry; an unknown id and a wrong key both give  *)
(* UnauthorizedLogin; the call changes no gateway state.                   *)
(***************************************************************************)
C15_AvatarIdIffEntryAndKey ==
    [][last'.op = "requestAvatarId" =>
          /\ last'.out <=> /\ last'.uid \in DOMAIN pendingRobots
                           /\ pendingRobots[last'.uid].key = last'.key
          /\ IF last'.out THEN last'.err = NoError
             ELSE last'.err = "UnauthorizedLogin"
          /\ UNCHANGED gatewayVars]_vars

\* a known id was refused for its key
C15_Witness ==
    /\ last.op = "requestAvatarId"
    /\ ~last.out
    /\ last.err = "UnauthorizedLogin"
    /\ last.uid \in DOMAIN pendingRobots
    /\ pendingRobots[last.uid].key # last.key

C18_DestroyIdempotent ==
    [][(last'.op = "remote_destroy" /\ sessions[last'.robot].destroyed) =>
          /\ last'.err = NoError
          /\ UNCHANGED gatewayVars]_vars

(***************************************************************************)
(* C19: after destroy() of a session that is Pending, Live or Orphaned,    *)
(* called by the master or by the timer, the session has no interface and  *)
(* no WebSocket, is in neither robots nor deathCandidates and has no armed *)
(* timer.                                                                  *)
(***************************************************************************)
C19_DestroyedIsGone ==
    [][(/\ last'.op \in {"remote_destroy", "_killRobot"}
        /\ StateOf(last'.robot) \in {"Pending", "Live", "Orphaned"}) =>
          LET r == last'.robot IN
          /\ last'.err = NoError
          /\ sessions'[r].interfaces = {}
          /\ sessions'[r].connection = None
          /\ sessions'[r].destroyed
          /\ r \notin robots'
          /\ r \notin DOMAIN deathCandidates'
          /\ ArmedTimers(timers', r) = {}]_vars

\* a session that had been Live was destroyed by the master while another
\* stays
C19_Witness ==
    /\ last.op = "remote_destroy"
    /\ last.err = NoError
    /\ sessions[last.robot].destroyed
    /\ Cardinality({t \in 1..Len(timers) : timers[t].robot = last.robot}) = 2
    /\ last.robot \notin robots
    /\ robots # {}

(***************************************************************************)
(* C20: sendToClient hands the message to the connection exactly when the  *)
(* session is Live at the call; in any other state, Destroyed included, it *)
(* gives no output; it raises no error and changes no state.               *)
(***************************************************************************)
C20_OutputOnlyWhenLive ==
    [][last'.op = "sendToClient" =>
          /\ last'.out <=> StateOf(last'.robot) = "Live"
          /\ last'.err = NoError
          /\ UNCHANGED gatewayVars]_vars


\* C21: receivedFromClient with a tag of the interface table delivers to
\* exactly that interface, and with a tag that is not in the table it fails
\* with UnknownInterface, delivers to no interface and leaves the interface
\* table and the connection as they were
C21_UnknownInterfaceRaised ==
    [][last'.op = "receivedFromClient" =>
          /\ sessions' = sessions
          /\ IF last'.tag \in sessions[last'.robot].interfaces
             THEN last'.to = last'.tag /\ last'.err = NoError
             ELSE last'.to = "" /\ last'.err = "UnknownInterface"]_vars

\* C22: createInterface with a tag that is not in the table inserts the
\* interface under it, and with a tag that is in the table it fails with
\* Conflict and leaves the table as it was
C22_DuplicateTagIsConflict ==
    [][last'.op = "remote_createInterface" =>
          IF last'.tag \in sessions[last'.robot].interfaces
          THEN /\ last'.err = "Conflict"
               /\ sessions' = sessions
          ELSE /\ last'.err = NoError
               /\ sessions'[last'.robot].interfaces
                    = sessions[last'.robot].interfaces \cup {last'.tag}]_vars


\* C23: when a session has lost its WebSocket and, before its timer fires,
\* the robot logs in again with the id the session was made for (the master
\* having published a key for that id again), that same session is Live
\* again, its timer is cancelled and its interface table is as it was
C23_ReconnectRevivesSession ==
    [][\A r \in 1..Len(sessions) :
          (/\ StateOf(r) = "Orphaned"
           /\ ArmedTimers(timers, r) # {}
           /\ last'.op = "requestAvatar"
           /\ last'.uid = owner[r]
           /\ last'.err = NoError)
          => /\ last'.robot = r
             /\ sessions'[r].connection # None
             /\ ~sessions'[r].destroyed
             /\ ArmedTimers(timers', r) = {}
             /\ sessions'[r].interfaces = sessions[r].interfaces]_vars


\* the session lost its WebSocket and waits for a robot
Disconnected(r) ==
    /\ r \in 1..Len(sessions)
    /\ StateOf(r) = "Orphaned"

\* the reactor holds one DelayedCall that will kill the session
TimerPending(r) ==
    /\ r \in DOMAIN deathCandidates
    /\ Cardinality(ArmedTimers(timers, r)) = 1
    /\ \A t \in ArmedTimers(timers, r) : deathCandidates[r] = t

\* at the call of its timer a session without WebSocket is destroyed
TimerDestroys ==
    [][\A r \in 1..Len(sessions) :
          (Disconnected(r) /\ last'.op = "_killRobot" /\ last'.robot = r)
          => /\ last'.err = NoError
             /\ sessions'[r].destroyed
             /\ sessions'[r].interfaces = {}
             /\ r \notin robots'
             /\ r \notin DOMAIN deathCandidates'
             /\ \A uid \in DOMAIN pendingRobots' : pendingRobots'[uid].robot # r]_vars

\* no session made for the id has an entry in pendingRobots
NothingPublishedFor(uid) ==
    \A q \in 1..Len(sessions) : owner[q] = uid => ~IsPending(q)

\* an authentication with the id of a session that was destroyed fails
DestroyedIsRefused ==
    [][(/\ last'.op = "requestAvatarId"
        /\ \E r \in 1..Len(sessions) : owner[r] = last'.uid /\ sessions[r].destroyed
        /\ NothingPublishedFor(last'.uid))
       => last'.err = "UnauthorizedLogin"]_vars

C25_TerminateEmptiesAll ==
    [][last'.op = "terminate" =>
          /\ last'.err = NoError
          /\ DOMAIN pendingRobots' = {}
          /\ robots' = {}
          /\ DOMAIN deathCandidates' = {}
          /\ \A r \in robots : sessions'[r].destroyed]_vars


\* C26: getNextLocation gives a registered endpoint whose active count is
\* least among the registered endpoints, fails with the error of no free
\* process exactly when no endpoint is registered, and leaves the set of
\* registered endpoints as it was
C26_LeastActiveEndpoint ==
    [][location'.turn # location.turn =>
          /\ distRobots' = distRobots
          /\ (location'.err = "RobotProcessError") = (distRobots = {})
          /\ distRobots # {} =>
                /\ location'.err = NoError
                /\ location'.endpoint \in distRobots
                /\ \A e \in distRobots :
                      active[location'.endpoint] <= active[e]]_vars

\* an endpoint was given while another registered endpoint had more
\* namespaces
C26_Witness ==
    /\ location.err = NoError
    /\ location.endpoint \in distRobots
    /\ \E e \in distRobots : active[e] > active[location.endpoint]


\* the session is destroyed, or its WebSocket is closed, or a call that
\* destroys it waits in the reactor
MarkedForDestruction(r) ==
    \/ sessions[r].destroyed
    \/ sessions[r].connection = None
    \/ ArmedTimers(timers, r) # {}

\* C27: a remote call that finds the channel of the user reference dead
\* raises DeadConnection, and the session is then destroyed at a following
\* turn of the reactor, its WebSocket closed: as the call returns, the
\* session is marked for that destruction
C27_DeadConnectionDestroys ==
    [][last'.op = "callRemote" =>
          /\ (last'.err = "DeadConnection") = userDead
          /\ \A r \in 1..Len(sessions) :
                (last'.err = "DeadConnection" /\ last'.robot = r)
                => MarkedForDestruction(r)']_vars

\* C29: the failure of a remote call that comes later is reported as one
\* text error frame when the session still has its WebSocket; when the
\* WebSocket was lost in between, it gives no output and raises no error
C29_LateFailureIsSilent ==
    [][last'.op = "_reportError" =>
          /\ last'.err = NoError
          /\ last'.out = (sessions[last'.robot].connection # None)]_vars


\* C28: connectionEstablished for a session that has no armed timer changes
\* nothing and raises no error; connectionLost for a session whose timer is
\* armed cancels that timer and arms a new one, so that exactly one timer of
\* the session is armed
C28_TimerCallsTolerant ==
    [][\A r \in 1..Len(sessions) :
          /\ (/\ last'.op = "requestAvatar"
              /\ last'.err = NoError
              /\ last'.robot = r
              /\ ArmedTimers(timers, r) = {})
             => /\ last'.after = NoError
                /\ timers' = timers
                /\ deathCandidates' = deathCandidates
          /\ (/\ last'.op = "unregisterConnectionToRobot"
              /\ last'.robot = r
              /\ ArmedTimers(timers, r) # {})
             => /\ last'.err = NoError
                /\ Cardinality(ArmedTimers(timers', r)) = 1
                /\ ArmedTimers(timers', r) \cap ArmedTimers(timers, r) = {}]_vars


\* C30: in the search of an outbound message, for every blob that an object
\* holds under a key k, the object afterwards holds a new URI under k+'*'
\* and nothing under k, and the pair recorded for that URI, as the binary
\* frame sent for it, carries the bytes of that same blob; so it is with
\* several blobs in one object and with values besides that are no blobs
C30_BlobKeptWithItsUri ==
    outbound.sent =>
        LET found == RecursiveBinarySearch(outbound.tree)
            frames == outbound.frames
        IN \A p \in DictPaths(outbound.tree) :
              \A k \in DOMAIN GetAt(outbound.tree, p) :
                 LET blob == GetAt(outbound.tree, p)[k]
                     obj == GetAt(found.multidict, p)
                 IN CheckIsStringIO(blob) =>
                       /\ k \notin DOMAIN obj
                       /\ StarKey(k) \in DOMAIN obj
                       /\ obj[StarKey(k)].t = "str"
                       /\ \E i \in 1..Len(found.uriBinary) :
                             /\ found.uriBinary[i][1] = obj[StarKey(k)].v
                             /\ found.uriBinary[i][2] = blob
                       /\ \E n \in 2..Len(frames) :
                             frames[n].bytes = obj[StarKey(k)].v \o blob.v


\* C31: at most one session that is not destroyed (Pending, Live or
\* Orphaned) exists for an id (userID, robotID): createNamespace gives no
\* second session for an id whose earlier session is still in robots
C31_OneSessionPerId ==
    \A r, q \in 1..Len(sessions) :
       (/\ owner[r] = owner[q]
        /\ ~sessions[r].destroyed
        /\ ~sessions[q].destroyed)
       => r = q

\* C32: every session that an entry of pendingRobots refers to is in robots
\* and not destroyed, so that an authentication that succeeds never hands
\* out a session the timer or the master destroyed, and
\* registerConnectionToRobot on the session handed out never fails the
\* assertion of connectionEstablished
C32_PendingSessionsAlive ==
    /\ [](\A uid \in DOMAIN pendingRobots :
             /\ pendingRobots[uid].robot \in robots
             /\ ~sessions[pendingRobots[uid].robot].destroyed)
    /\ [][\A r \in 1..Len(sessions) :
             (/\ last'.op = "requestAvatar"
              /\ last'.err = NoError
              /\ last'.robot = r)
             => /\ ~sessions[r].destroyed
                /\ last'.after = NoError]_vars

====
